---- MODULE Spec2Model ----
(***************************************************************************)
(* PolicyBot ingestion-and-retrieval core: the vector index store of       *)
(* src/src/embed.py (persist, load, full build, incremental update,        *)
(* search), the sentence chunker of src/src/chunker.py (chunk_text) and    *)
(* the chunker's directory walk (main, _make_chunk_id).                    *)
(*                                                                         *)
(* Three specifications share the module's variables:                      *)
(*   Spec       the index store, one action per function of embed.py       *)
(*   SpecChunk  chunk_text applied to bounded sentence lists               *)
(*   SpecMain   chunker.main applied to bounded directory trees            *)
(***************************************************************************)
EXTENDS Integers, Sequences, FiniteSets, TLC

\* ------------------------------------------------------------------------
\* Bounds of the model
\* ------------------------------------------------------------------------
\* The chunks of the universe the index store is fed from.
ChunkIds == {1, 2}
\* Cap on the number of vectors an in-memory index may hold.
MaxIndex == 2
\* Cap on the I/O failures (failed writes, failed reads) injected in one behaviour.
MaxFaults == 1

\* Longest sentence list handed to chunk_text.
MaxSents == 3
\* Largest max_words tried (0..MaxWordsTried).
MaxWordsTried == 3

\* Most entries under data/clean in one tree.
MaxFiles == 2

\* Output widths of the encoders a process may be configured with
\* (all-MiniLM-L6-v2 yields 384; any width other than EmptyIndexDim behaves alike).
Dims == {2, 3}
\* top_k values tried by search.
Ks == {1, 2}

\* The characters of a sentence and the lengths of the sentences tried.
Alphabet == {"a", " "}
SentLens == {1, 2, 3}

\* chunk_text's default max_words, which main uses.
DefaultMaxWords == 150

\* embed_all_and_save builds the index of an empty collection with this width.
EmptyIndexDim == 1

\* ------------------------------------------------------------------------
\* State
\* ------------------------------------------------------------------------
VARIABLES
  idxFile,        \* data/vector_db/faiss.index
  metaFile,       \* data/vector_db/metadata.json
  sidecar,        \* data/vector_db/already_embedded.yaml
  index,          \* the index object the caller holds
  metadata_list,  \* the metadata list the caller holds
  modelDim,       \* output width of the encoder configured in this process
  origin,         \* how the caller's (index, metadata_list) came about
  lastRun,        \* the collection whose complete persist wrote the current files
  last,           \* the last call: operation, arguments, outcome
  faults,         \* I/O failures injected so far
  sentences,      \* chunk_text: the tokenizer's sentence list
  max_words,      \* chunk_text: its max_words argument
  chunks,         \* chunk_text: its result
  cleanDir,       \* chunker.main: the tree under data/clean
  all_chunks,     \* chunker.main: data/chunks/all_chunks.json
  chunkFiles,     \* chunker.main: the per-document chunk files
  mainRun,        \* chunker.main: whether it ran and how it ended
  docLinks,       \* data/raw/doc_links.yaml
  downloadedFile, \* data/raw/already_downloaded.yaml
  pipeRun         \* run_pipeline: the stage it is at and what it holds

embedVars == <<idxFile, metaFile, sidecar, index, metadata_list, modelDim,
               origin, lastRun, last, faults>>
chunkVars == <<sentences, max_words, chunks>>
mainVars == <<cleanDir, all_chunks, chunkFiles, mainRun>>
pipeVars == <<docLinks, downloadedFile, pipeRun>>
vars == <<idxFile, metaFile, sidecar, index, metadata_list, modelDim,
          origin, lastRun, last, faults, sentences, max_words, chunks,
          cleanDir, all_chunks, chunkFiles, mainRun, docLinks, downloadedFile,
          pipeRun>>

\* ------------------------------------------------------------------------
\* Values
\* ------------------------------------------------------------------------
\* Python's None where an index is expected.
NoneIndex == [kind |-> "None", d |-> 0, ids |-> <<>>, vecs |-> <<>>]

\* faiss.IndexIDMap over IndexFlatIP: the vectors in insertion order and the
\* parallel array of caller-assigned ids.
build_faiss_index(dimension) ==
  [kind |-> "IDMap", d |-> dimension, ids |-> <<>>, vecs |-> <<>>]

ntotal(ix) == Len(ix.ids)

\* A chunk record of all_chunks.json.
Chunk(k) ==
  [id |-> k, site |-> "s", source_file |-> "f.txt", chunk_index |-> k - 1,
   text |-> k]

\* The ordered chunk collections handed to the index store: the chunker
\* writes each chunk once, in a fixed order.
RECURSIVE Ascending(_)
Ascending(S) ==
  IF S = {} THEN <<>>
  ELSE LET k == CHOOSE x \in S : \A y \in S : x <= y
       IN <<Chunk(k)>> \o Ascending(S \ {k})

ChunkLists == {Ascending(S) : S \in SUBSET ChunkIds}

\* The metadata record both builders derive from a chunk.
MetadataRecord(c) ==
  [id |-> c.id, site |-> c.site, source_file |-> c.source_file,
   chunk_index |-> c.chunk_index]

\* A file of the vector store: absent, unreadable or unparseable, or holding val.
Absent(empty) == [st |-> "absent", val |-> empty]
Corrupt(empty) == [st |-> "corrupt", val |-> empty]
Holding(v) == [st |-> "ok", val |-> v]

\* The record of a call: its operation, what it returned or raised, and the
\* number of hits a search returned.
Call(op, outcome, hits) == [op |-> op, outcome |-> outcome, hits |-> hits]

NoCall == Call("init", "ok", 0)

\* ------------------------------------------------------------------------
\* embed.py
\* ------------------------------------------------------------------------
\* compute_embeddings: no text, no encoder call and a (0, 0) array; otherwise
\* the configured encoder (which may fail) yields one row of width d per text.
\* A row is the encoder's deterministic image of its text.
compute_embeddings(texts, enc, d) ==
  IF texts = <<>> THEN [raised |-> FALSE, n |-> 0, d |-> 0, rows |-> <<>>]
  ELSE IF ~enc THEN [raised |-> TRUE, n |-> 0, d |-> 0, rows |-> <<>>]
  ELSE [raised |-> FALSE, n |-> Len(texts), d |-> d,
        rows |-> [i \in 1..Len(texts) |-> [d |-> d, text |-> texts[i]]]]

\* numpy.arange(a, b)
arange(a, b) == [i \in 1..(b - a) |-> a + i - 1]

\* IndexIDMap.add_with_ids: appends the rows and their ids.
add_with_ids(ix, rows, ids) ==
  [ix EXCEPT !.ids = ix.ids \o ids, !.vecs = ix.vecs \o rows]

\* What a failed write leaves of a file: the open itself failed and the file
\* is as it was, or the write stopped part-way and the file is unusable.
FailedWrite(old, partial, empty) == IF partial THEN Corrupt(empty) ELSE old

\* save_index with metadata.json written before the index file.
save_index_meta_first(ix, md, failAt, partial, files) ==
  IF failAt = "meta"
    THEN [raised |-> TRUE, idx |-> files.idx,
          meta |-> FailedWrite(files.meta, partial, <<>>), side |-> files.side]
  ELSE IF failAt = "index"
    THEN [raised |-> TRUE, idx |-> FailedWrite(files.idx, partial, NoneIndex),
          meta |-> Holding(md), side |-> files.side]
  ELSE IF failAt = "sidecar"
    THEN [raised |-> TRUE, idx |-> Holding(ix), meta |-> Holding(md),
          side |-> FailedWrite(files.side, partial, 0)]
  ELSE [raised |-> FALSE, idx |-> Holding(ix), meta |-> Holding(md),
        side |-> Holding(Len(md))]

\* save_index: the index file, then metadata.json, then the count sidecar.
\* failAt names the write that fails ("none": all three succeed).
save_index(ix, md, failAt, partial, files) ==
  IF failAt = "index"
    THEN [raised |-> TRUE, idx |-> FailedWrite(files.idx, partial, NoneIndex),
          meta |-> files.meta, side |-> files.side]
  ELSE IF failAt = "meta"
    THEN [raised |-> TRUE, idx |-> Holding(ix),
          meta |-> FailedWrite(files.meta, partial, <<>>), side |-> files.side]
  ELSE IF failAt = "sidecar"
    THEN [raised |-> TRUE, idx |-> Holding(ix), meta |-> Holding(md),
          side |-> FailedWrite(files.side, partial, 0)]
  ELSE [raised |-> FALSE, idx |-> Holding(ix), meta |-> Holding(md),
        side |-> Holding(Len(md))]

\* load_index: (None, []) unless both files exist and the index reads; an
\* unreadable metadata.json yields the index with an empty list.
\* ioErr names a read that fails although the file is intact.
load_index(files, ioErr) ==
  IF ~(files.idx.st # "absent" /\ files.meta.st # "absent")
    THEN [index |-> NoneIndex, metadata_list |-> <<>>, case |-> "missing"]
  ELSE IF files.idx.st = "corrupt" \/ ioErr = "index"
    THEN [index |-> NoneIndex, metadata_list |-> <<>>, case |-> "badindex"]
  ELSE IF files.meta.st = "corrupt" \/ ioErr = "meta"
    THEN [index |-> files.idx.val, metadata_list |-> <<>>, case |-> "badmeta"]
  ELSE [index |-> files.idx.val, metadata_list |-> files.meta.val, case |-> "ok"]

\* The result of a builder: what it returns or raises, the caller's objects
\* after it, and the files after it.
Result(outcome, ix, md, saved, sv) ==
  [outcome |-> outcome, index |-> ix, metadata_list |-> md, saved |-> saved,
   idx |-> sv.idx, meta |-> sv.meta, side |-> sv.side]

Untouched(files) ==
  [raised |-> FALSE, idx |-> files.idx, meta |-> files.meta, side |-> files.side]

Texts(cs) == [i \in 1..Len(cs) |-> cs[i].text]
Records(cs) == [i \in 1..Len(cs) |-> MetadataRecord(cs[i])]

\* embed_all_and_save: a fresh index over all chunks, ids 0..n-1, persisted.
\* ix, md are the objects the caller held before; they are returned on a raise.
embed_all_and_save(ix, md, cs, enc, d, failAt, partial, files) ==
  LET embeddings == compute_embeddings(Texts(cs), enc, d)
  IN IF embeddings.raised
       THEN Result("EncoderError", ix, md, FALSE, Untouched(files))
     ELSE IF embeddings.n * embeddings.d = 0
       THEN LET nix == build_faiss_index(EmptyIndexDim)
                sv == save_index(nix, <<>>, failAt, partial, files)
            IN IF sv.raised THEN Result("WriteError", ix, md, FALSE, sv)
               ELSE Result("ok", nix, <<>>, TRUE, sv)
     ELSE LET nix == add_with_ids(build_faiss_index(embeddings.d),
                                  embeddings.rows, arange(0, embeddings.n))
              nmd == Records(cs)
              sv == save_index(nix, nmd, failAt, partial, files)
          IN IF sv.raised THEN Result("WriteError", ix, md, FALSE, sv)
             ELSE Result("ok", nix, nmd, TRUE, sv)

\* add_embeddings_incremental without the dimensionality check.
add_embeddings_incremental_unchecked(ix, md, cs, enc, d, failAt, partial, files) ==
  IF cs = <<>> THEN Result("ok", ix, md, FALSE, Untouched(files))
  ELSE LET embeddings == compute_embeddings(Texts(cs), enc, d)
       IN IF embeddings.raised
            THEN Result("EncoderError", ix, md, FALSE, Untouched(files))
          ELSE IF ix.kind = "None"
            THEN Result("AttributeError", ix, md, FALSE, Untouched(files))
          ELSE LET start_id == Len(md)
                   nix == add_with_ids(ix, embeddings.rows,
                                       arange(start_id, start_id + embeddings.n))
                   nmd == md \o Records(cs)
                   sv == save_index(nix, nmd, failAt, partial, files)
               IN Result(IF sv.raised THEN "WriteError" ELSE "ok",
                         nix, nmd, ~sv.raised, sv)

\* add_embeddings_incremental: nothing to add returns at once; a width other
\* than the index's raises ValueError; otherwise the rows get the ids
\* len(metadata_list).. and both objects are extended in place, then saved.
\* With no index (None) the width is unknown and both add calls fail.
add_embeddings_incremental(ix, md, cs, enc, d, failAt, partial, files) ==
  IF cs = <<>> THEN Result("ok", ix, md, FALSE, Untouched(files))
  ELSE LET embeddings == compute_embeddings(Texts(cs), enc, d)
       IN IF embeddings.raised
            THEN Result("EncoderError", ix, md, FALSE, Untouched(files))
          ELSE IF embeddings.n * embeddings.d = 0
            THEN Result("ok", ix, md, FALSE, Untouched(files))
          ELSE IF ix.kind # "None" /\ embeddings.d # ix.d
            THEN Result("ValueError", ix, md, FALSE, Untouched(files))
          ELSE IF ix.kind = "None"
            THEN Result("AttributeError", ix, md, FALSE, Untouched(files))
          ELSE LET start_id == Len(md)
                   nix == add_with_ids(ix, embeddings.rows,
                                       arange(start_id, start_id + embeddings.n))
                   nmd == md \o Records(cs)
                   sv == save_index(nix, nmd, failAt, partial, files)
               IN Result(IF sv.raised THEN "WriteError" ELSE "ok",
                         nix, nmd, ~sv.raised, sv)

\* Similarity of two rows of equal width: the inner product of the normalised
\* vectors, highest for rows of the same text.
Score(q, v) == IF q.text = v.text THEN 2 ELSE 1

\* The position of the best-scoring row among the positions in left; the
\* earliest inserted one on a tie.
Best(ix, q, left) ==
  CHOOSE p \in left :
    \A r \in left :
      \/ Score(q, ix.vecs[p]) > Score(q, ix.vecs[r])
      \/ Score(q, ix.vecs[p]) = Score(q, ix.vecs[r]) /\ p <= r

\* index.search: the labels (ids) of the top_k rows best first, -1 where the
\* index has fewer than top_k rows.
RECURSIVE TopK(_, _, _, _)
TopK(ix, q, left, k) ==
  IF k = 0 THEN <<>>
  ELSE IF left = {} THEN <<-1>> \o TopK(ix, q, left, k - 1)
  ELSE LET p == Best(ix, q, left)
       IN <<ix.ids[p]>> \o TopK(ix, q, left \ {p}, k - 1)

\* The join of search: labels outside 0..len(metadata_list)-1 are skipped.
RECURSIVE Join(_, _)
Join(labels, md) ==
  IF labels = <<>> THEN <<>>
  ELSE LET idx == Head(labels)
       IN (IF idx < 0 \/ idx >= Len(md) THEN <<>> ELSE <<md[idx + 1]>>)
          \o Join(Tail(labels), md)

\* search without the guard on a missing index or an empty metadata list.
search_unguarded(ix, md, query, top_k, enc, d) ==
  LET q_emb == compute_embeddings(<<query>>, enc, d)
  IN IF q_emb.raised THEN [outcome |-> "EncoderError", results |-> <<>>]
     ELSE IF ix.kind = "None" THEN [outcome |-> "AttributeError", results |-> <<>>]
     ELSE IF q_emb.d # ix.d THEN [outcome |-> "AssertionError", results |-> <<>>]
     ELSE [outcome |-> "ok",
           results |-> Join(TopK(ix, q_emb.rows[1], 1..ntotal(ix), top_k), md)]

\* search: [] without an index or without metadata; otherwise the query is
\* embedded and the hits are joined to the metadata by label.
search(ix, md, query, top_k, enc, d) ==
  IF ix.kind = "None" \/ md = <<>> THEN [outcome |-> "ok", results |-> <<>>]
  ELSE LET q_emb == compute_embeddings(<<query>>, enc, d)
       IN IF q_emb.raised THEN [outcome |-> "EncoderError", results |-> <<>>]
          ELSE IF q_emb.n * q_emb.d = 0 THEN [outcome |-> "ok", results |-> <<>>]
          ELSE IF q_emb.d # ix.d THEN [outcome |-> "AssertionError", results |-> <<>>]
          ELSE [outcome |-> "ok",
                results |-> Join(TopK(ix, q_emb.rows[1], 1..ntotal(ix), top_k), md)]

\* ------------------------------------------------------------------------
\* The index store as a state machine
\* ------------------------------------------------------------------------
\* embed.py handles no exception of its own calls: a call that raises ends
\* the run (pipeline.run_pipeline logs it and finishes), and the next call
\* belongs to a new process.
Files == [idx |-> idxFile, meta |-> metaFile, side |-> sidecar]
FailPoints == {"none", "index", "meta", "sidecar"}
Running == last.outcome = "ok"

\* The collection whose complete persist wrote the files: "absent" once a
\* call has written them otherwise.
RunAfter(r, cs) ==
  IF r.saved THEN Holding(cs)
  ELSE IF <<r.idx, r.meta, r.side>> = <<idxFile, metaFile, sidecar>> THEN lastRun
  ELSE Absent(<<>>)

\* embed_all_and_save(cs) with the encoder working or not and the write
\* failAt failing; the caller keeps what it returns.
EmbedAllCall(cs, enc, failAt, partial) ==
  /\ Running
  /\ failAt # "none" => faults < MaxFaults
  /\ \E r \in {embed_all_and_save(index, metadata_list, cs, enc, modelDim,
                                  failAt, partial, Files)} :
       /\ faults' = (IF r.outcome = "WriteError" THEN faults + 1 ELSE faults)
       /\ idxFile' = r.idx
       /\ metaFile' = r.meta
       /\ sidecar' = r.side
       /\ index' = r.index
       /\ metadata_list' = r.metadata_list
       /\ origin' = (IF r.outcome = "ok" THEN "built" ELSE origin)
       /\ lastRun' = RunAfter(r, cs)
       /\ last' = Call("embed_all", r.outcome, 0)
  /\ UNCHANGED <<modelDim, chunkVars, mainVars, pipeVars>>

EmbedAllAndSave ==
  \E cs \in ChunkLists, enc \in BOOLEAN, failAt \in FailPoints, partial \in BOOLEAN :
    /\ failAt = "none" => ~partial
    /\ EmbedAllCall(cs, enc, failAt, partial)

\* load_index() with the read ioErr failing; the caller keeps what it returns.
LoadCall(ioErr) ==
  /\ Running
  /\ ioErr # "none" => faults < MaxFaults
  /\ \E r \in {load_index(Files, ioErr)} :
       /\ faults' = (IF ioErr # "none" /\ r.case # "missing"
                       THEN faults + 1 ELSE faults)
       /\ index' = r.index
       /\ metadata_list' = r.metadata_list
       /\ origin' = r.case
  /\ last' = Call("load", "ok", 0)
  /\ UNCHANGED <<idxFile, metaFile, sidecar, modelDim, lastRun, chunkVars, mainVars, pipeVars>>

LoadIndex == \E ioErr \in {"none", "index", "meta"} : LoadCall(ioErr)

\* add_embeddings_incremental(index, metadata_list, cs) on the objects the
\* caller holds, which it extends in place.
AddCall(cs, enc, failAt, partial) ==
  /\ Running
  /\ origin # "none"
  /\ ntotal(index) + Len(cs) <= MaxIndex
  /\ failAt # "none" => faults < MaxFaults
  /\ \E r \in {add_embeddings_incremental(index, metadata_list, cs, enc, modelDim,
                                          failAt, partial, Files)} :
       /\ faults' = (IF r.outcome = "WriteError" THEN faults + 1 ELSE faults)
       /\ idxFile' = r.idx
       /\ metaFile' = r.meta
       /\ sidecar' = r.side
       /\ index' = r.index
       /\ metadata_list' = r.metadata_list
       /\ origin' = (IF r.index = index /\ r.metadata_list = metadata_list
                       THEN origin
                     ELSE IF origin = "built" THEN "built" ELSE "updated")
       /\ lastRun' = RunAfter(r, cs)
       /\ last' = Call("add", r.outcome, 0)
  /\ UNCHANGED <<modelDim, chunkVars, mainVars, pipeVars>>

AddEmbeddingsIncremental ==
  \E cs \in ChunkLists, enc \in BOOLEAN, failAt \in FailPoints, partial \in BOOLEAN :
    /\ failAt = "none" => ~partial
    /\ AddCall(cs, enc, failAt, partial)

\* search(index, metadata_list, query, top_k) on the objects the caller holds.
SearchCall(query, top_k, enc) ==
  /\ Running
  /\ origin # "none"
  /\ \E r \in {search(index, metadata_list, query, top_k, enc, modelDim)} :
       last' = Call("search", r.outcome, Len(r.results))
  /\ UNCHANGED <<idxFile, metaFile, sidecar, index, metadata_list, modelDim,
                 origin, lastRun, faults, chunkVars, mainVars, pipeVars>>

Search ==
  \E query \in ChunkIds, top_k \in Ks, enc \in BOOLEAN :
    SearchCall(query, top_k, enc)

\* A new process: nothing is held, the encoder is the one now configured
\* (EMBEDDING_MODEL_NAME), the files are as the last process left them.
Restart ==
  \E d \in Dims :
    /\ origin # "none" \/ last.op # "init"
    /\ modelDim' = d
    /\ index' = NoneIndex
    /\ metadata_list' = <<>>
    /\ origin' = "none"
    /\ last' = NoCall
    /\ UNCHANGED <<idxFile, metaFile, sidecar, lastRun, faults, chunkVars, mainVars, pipeVars>>

\* run_pipeline has not been called and data/raw holds no yaml file.
InitPipeIdle ==
  /\ docLinks = Absent(<<>>)
  /\ downloadedFile = Absent(<<>>)
  /\ pipeRun = [pc |-> "idle", outcome |-> "none", fetched |-> {},
                dlSaved |-> FALSE, saved |-> FALSE]

Init ==
  /\ InitPipeIdle
  /\ idxFile = Absent(NoneIndex)
  /\ metaFile = Absent(<<>>)
  /\ sidecar = Absent(0)
  /\ index = NoneIndex
  /\ metadata_list = <<>>
  /\ modelDim \in Dims
  /\ origin = "none"
  /\ lastRun = Absent(<<>>)
  /\ last = NoCall
  /\ faults = 0
  /\ sentences = <<>> /\ max_words = 0 /\ chunks = [done |-> FALSE, out |-> <<>>]
  /\ cleanDir = [exists |-> FALSE, files |-> {}]
  /\ all_chunks = Absent(<<>>)
  /\ chunkFiles = <<>>
  /\ mainRun = [done |-> FALSE, outcome |-> "none"]

Next ==
  \/ EmbedAllAndSave
  \/ LoadIndex
  \/ AddEmbeddingsIncremental
  \/ Search
  \/ Restart

Spec == Init /\ [][Next]_vars

\* ------------------------------------------------------------------------
\* Claims about the index store
\* ------------------------------------------------------------------------
FilesUnchanged == idxFile' = idxFile /\ metaFile' = metaFile

\* C1: an update (load_index, then add_embeddings_incremental on the
\* candidate collection) run again on the collection whose persist wrote the
\* current files leaves the persisted index and metadata as they are.
C1_IdempotentRerun ==
  [][\A cs \in ChunkLists :
       (/\ origin = "ok"
        /\ lastRun = Holding(cs)
        /\ AddCall(cs, TRUE, "none", FALSE))
       => FilesUnchanged]_vars

\* C2: on an index produced by embed_all_and_save (of any collection, the
\* empty one included) and any number of incremental adds, adding m >= 1
\* chunks with the same encoder grows the index by exactly m entries and the
\* metadata by exactly m records, and leaves every prior id, vector and
\* record as it was.
C2_MonotonicGrowth ==
  [][\A cs \in ChunkLists \ {<<>>} :
       (/\ origin = "built"
        /\ AddCall(cs, TRUE, "none", FALSE))
       => /\ ntotal(index') = ntotal(index) + Len(cs)
          /\ Len(metadata_list') = Len(metadata_list) + Len(cs)
          /\ SubSeq(index'.ids, 1, ntotal(index)) = index.ids
          /\ SubSeq(index'.vecs, 1, ntotal(index)) = index.vecs
          /\ SubSeq(metadata_list', 1, Len(metadata_list)) = metadata_list]_vars

\* C3: while the files are those a successful save_index wrote, the
\* persisted metadata sequence is as long as the persisted index has vectors.
C3_MetadataMatchesIndex ==
  lastRun.st = "ok" => Len(metaFile.val) = ntotal(idxFile.val)

\* C4: an incremental add whose new embeddings have another width than the
\* index held raises ValueError and leaves the index file, the metadata file,
\* the sidecar, the index object and the metadata list as they were.
C4_DimensionSafety ==
  [][\A cs \in ChunkLists \ {<<>>}, failAt \in FailPoints, partial \in BOOLEAN :
       (/\ index.kind # "None"
        /\ index.d # modelDim
        /\ AddCall(cs, TRUE, failAt, partial))
       => /\ last'.outcome = "ValueError"
          /\ UNCHANGED <<idxFile, metaFile, sidecar, index, metadata_list>>]_vars

\* C4 witness: a non-empty index loaded from the files has met an add of
\* another width.
C4_Witness ==
  /\ last.op = "add" /\ last.outcome = "ValueError"
  /\ origin = "ok" /\ ntotal(index) > 0 /\ index.d # modelDim
  /\ index.d # EmptyIndexDim

\* C5: load_index returns without raising, and with a missing, unreadable or
\* unparseable artifact it returns the empty state: no vectors and no
\* metadata.
C5_LoadEmptyOnBadArtifact ==
  last.op = "load" =>
    /\ last.outcome = "ok"
    /\ origin \in {"missing", "badindex", "badmeta"} =>
         (ntotal(index) = 0 /\ metadata_list = <<>>)

\* C6 as stated: embed_all_and_save and add_embeddings_incremental either
\* complete, having written index and metadata together (or nothing, when
\* there was nothing to add), or raise and leave both files as they were.
C6_FailureLeavesFilesUntouched ==
  [][last'.op \in {"embed_all", "add"} =>
       \/ /\ last'.outcome = "ok"
          /\ \/ FilesUnchanged
             \/ idxFile' = Holding(index') /\ metaFile' = Holding(metadata_list')
       \/ /\ last'.outcome # "ok"
          /\ FilesUnchanged]_vars

\* C6 amended: a raise before save_index (encoder failure, width mismatch, no
\* index) leaves both files as they were; a failed write inside save_index
\* may leave the index file rewritten or damaged, and changes the metadata
\* file only after the index file has been written completely.
C6_FailureBeforeSaveLeavesFiles ==
  [][last'.op \in {"embed_all", "add"} =>
       \/ /\ last'.outcome = "ok"
          /\ \/ FilesUnchanged /\ sidecar' = sidecar
             \/ /\ idxFile' = Holding(index')
                /\ metaFile' = Holding(metadata_list')
                /\ sidecar' = Holding(Len(metadata_list'))
       \/ /\ last'.outcome \in {"EncoderError", "ValueError", "AttributeError"}
          /\ FilesUnchanged /\ sidecar' = sidecar
       \/ /\ last'.outcome = "WriteError"
          /\ metaFile' # metaFile =>
               /\ idxFile'.st = "ok"
               /\ last'.op = "add" => idxFile'.val = index'
               /\ (last'.op = "embed_all" /\ metaFile'.st = "ok") =>
                    Len(metaFile'.val) = ntotal(idxFile'.val)
          /\ sidecar' # sidecar => idxFile'.st = "ok" /\ metaFile'.st = "ok"]_vars

\* C6 witness: a write failed after the index file was replaced.
C6_Witness ==
  /\ last.op \in {"embed_all", "add"} /\ last.outcome = "WriteError"
  /\ idxFile.st = "ok" /\ ntotal(idxFile.val) > 0
  /\ metaFile.st # "ok"

\* The states load_index returns for an empty, absent or unloadable index.
EmptyLoad ==
  \/ origin \in {"missing", "badindex", "badmeta"}
  \/ origin = "ok" /\ lastRun = Holding(<<>>)

RECURSIVE SeqsUpTo(_, _)
SeqsUpTo(S, n) ==
  IF n = 0 THEN {<<>>}
  ELSE LET shorter == SeqsUpTo(S, n - 1)
       IN shorter \cup {Append(t, x) : t \in {u \in shorter : Len(u) = n - 1}, x \in S}

IsSpace(c) == c = " "

\* str.split(): the maximal runs of non-whitespace characters, in order.
\* The words of two adjacent pieces of a string: a word cut by the boundary
\* is put together again.
MergeWords(left, right, cut) ==
  IF cut /\ left # <<>> /\ right # <<>>
    THEN SubSeq(left, 1, Len(left) - 1)
           \o <<left[Len(left)] \o right[1]>> \o Tail(right)
  ELSE left \o right

RECURSIVE SplitFrom(_, _, _)
SplitFrom(str, lo, hi) ==
  IF lo > hi THEN <<>>
  ELSE IF lo = hi THEN (IF IsSpace(str[lo]) THEN <<>> ELSE <<<<str[lo]>>>>)
  ELSE MergeWords(SplitFrom(str, lo, (lo + hi) \div 2),
                  SplitFrom(str, ((lo + hi) \div 2) + 1, hi),
                  ~IsSpace(str[(lo + hi) \div 2])
                    /\ ~IsSpace(str[((lo + hi) \div 2) + 1]))

split(str) == SplitFrom(str, 1, Len(str))

\* " ".join(words)
RECURSIVE JoinFrom(_, _, _)
JoinFrom(words, lo, hi) ==
  IF lo > hi THEN <<>>
  ELSE IF lo = hi THEN words[lo]
  ELSE JoinFrom(words, lo, (lo + hi) \div 2) \o <<" ">>
         \o JoinFrom(words, ((lo + hi) \div 2) + 1, hi)

join(words) == JoinFrom(words, 1, Len(words))

\* The test of line 59 without the incoming sentence's length.
Overflows_without_sentence(current_len, n, limit) == current_len > limit

\* Line 59: the sentence would push the running count past max_words.
Overflows(current_len, n, limit) == current_len + n > limit

\* A new chunk that starts empty instead of with the sentence's words.
StartChunk_empty(words) == <<>>

\* Line 63: a new chunk starts with the sentence's words.
StartChunk(words) == words

\* Lines 61-62 and 69-70: a non-empty current chunk is joined and appended.
Flush(out, current_chunk) ==
  IF current_chunk # <<>> THEN Append(out, join(current_chunk)) ELSE out

\* The loop of chunk_text from sentence i on.
RECURSIVE ChunkLoop(_, _, _, _, _, _)
ChunkLoop(sents, i, out, current_chunk, current_len, limit) ==
  IF i > Len(sents) THEN Flush(out, current_chunk)
  ELSE LET words == split(sents[i])
       IN IF Overflows(current_len, Len(words), limit)
            THEN ChunkLoop(sents, i + 1, Flush(out, current_chunk),
                           StartChunk(words), Len(words), limit)
          ELSE ChunkLoop(sents, i + 1, out, current_chunk \o words,
                         current_len + Len(words), limit)

\* chunk_text on the sentences sent_tokenize found in the text.
chunk_text(sents, limit) == ChunkLoop(sents, 1, <<>>, <<>>, 0, limit)

\* The sentences sent_tokenize may return: each holds a word.
SentencePool ==
  {str \in UNION {[1..n -> Alphabet] : n \in SentLens} : split(str) # <<>>}

InitEmbedIdle ==
  /\ idxFile = Absent(NoneIndex) /\ metaFile = Absent(<<>>) /\ sidecar = Absent(0)
  /\ index = NoneIndex /\ metadata_list = <<>> /\ modelDim = EmptyIndexDim
  /\ origin = "none" /\ lastRun = Absent(<<>>) /\ last = NoCall /\ faults = 0

InitMainIdle ==
  /\ cleanDir = [exists |-> FALSE, files |-> {}]
  /\ all_chunks = Absent(<<>>)
  /\ chunkFiles = <<>>
  /\ mainRun = [done |-> FALSE, outcome |-> "none"]

InitChunkIdle ==
  sentences = <<>> /\ max_words = 0 /\ chunks = [done |-> FALSE, out |-> <<>>]

InitChunk ==
  /\ InitEmbedIdle
  /\ InitMainIdle
  /\ InitPipeIdle
  /\ sentences \in SeqsUpTo(SentencePool, MaxSents)
  /\ max_words \in 0..MaxWordsTried
  /\ chunks = [done |-> FALSE, out |-> <<>>]

\* A call chunk_text(text, max_words).
ChunkText ==
  /\ ~chunks.done
  /\ chunks' = [done |-> TRUE, out |-> chunk_text(sentences, max_words)]
  /\ UNCHANGED <<sentences, max_words, embedVars, mainVars, pipeVars>>

NextChunk == ChunkText

SpecChunk == InitChunk /\ [][NextChunk]_vars

\* ------------------------------------------------------------------------
\* Claims about chunk_text
\* ------------------------------------------------------------------------
\* The words of sentences from..to, in order.
RECURSIVE WordsOf(_, _, _)
WordsOf(sents, from, to) ==
  IF from > to THEN <<>> ELSE split(sents[from]) \o WordsOf(sents, from + 1, to)

\* The chunks are, one after the other, runs of whole consecutive sentences
\* from sentence `from` to the last, each run within limit words unless it is
\* one sentence alone.
RECURSIVE BoundedRuns(_, _, _, _)
BoundedRuns(out, sents, from, limit) ==
  IF out = <<>> THEN from = Len(sents) + 1
  ELSE \E to \in from..Len(sents) :
         /\ split(Head(out)) = WordsOf(sents, from, to)
         /\ \/ Len(split(Head(out))) <= limit
            \/ to = from /\ Len(split(sents[from])) > limit
         /\ BoundedRuns(Tail(out), sents, to + 1, limit)

\* C8: every chunk has at most max_words whitespace tokens, unless it is
\* exactly one sentence that alone exceeds max_words; such a sentence is
\* never in a chunk with another sentence.
C8_ChunkingBound ==
  chunks.done => BoundedRuns(chunks.out, sentences, 1, max_words)

\* C8 witness: a sentence over max_words stood between two others and came
\* out as a chunk of its own.
C8_Witness ==
  /\ chunks.done /\ Len(sentences) = 3 /\ max_words = 1
  /\ Len(split(sentences[2])) > max_words
  /\ Len(chunks.out) = 3
  /\ split(chunks.out[2]) = split(sentences[2])

\* The words of all chunks, in order.
RECURSIVE ChunkWords(_)
ChunkWords(out) ==
  IF out = <<>> THEN <<>> ELSE split(Head(out)) \o ChunkWords(Tail(out))

\* The chunks cut the sentence list at sentence boundaries only.
RECURSIVE WholeSentences(_, _, _)
WholeSentences(out, sents, from) ==
  IF out = <<>> THEN from = Len(sents) + 1
  ELSE \E to \in from..Len(sents) :
         /\ split(Head(out)) = WordsOf(sents, from, to)
         /\ WholeSentences(Tail(out), sents, to + 1)

\* C9: the chunks in order hold exactly the words of the sentences in their
\* order, no sentence lost, repeated, moved or split over two chunks.
C9_SentencePreservation ==
  chunks.done =>
    /\ ChunkWords(chunks.out) = WordsOf(sentences, 1, Len(sentences))
    /\ WholeSentences(chunks.out, sentences, 1)

\* C9 witness: three sentences of different words came out as two chunks.
C9_Witness ==
  /\ chunks.done /\ Len(sentences) = 3 /\ Len(chunks.out) = 2
  /\ split(sentences[1]) # split(sentences[2])
  /\ split(sentences[2]) # split(sentences[3])
  /\ Len(split(sentences[1])) = 2

\* ------------------------------------------------------------------------
\* chunker.py: _make_chunk_id and main
\* ------------------------------------------------------------------------
\* Code points of the characters of the names tried.
Ord(c) ==
  CASE c = "." -> 46 [] c = "T" -> 84 [] c = "X" -> 88 [] c = "a" -> 97
    [] c = "b" -> 98 [] c = "d" -> 100 [] c = "m" -> 109 [] c = "s" -> 115
    [] c = "t" -> 116 [] c = "x" -> 120 [] c = "|" -> 124

\* Python's order of strings: a < b.
RECURSIVE LessStr(_, _)
LessStr(a, b) ==
  IF b = <<>> THEN FALSE
  ELSE IF a = <<>> THEN TRUE
  ELSE IF Ord(Head(a)) # Ord(Head(b)) THEN Ord(Head(a)) < Ord(Head(b))
  ELSE LessStr(Tail(a), Tail(b))

\* str.lower() on the characters tried.
LowerChar(c) == IF c = "T" THEN "t" ELSE IF c = "X" THEN "x" ELSE c
lower(str) == [i \in 1..Len(str) |-> LowerChar(str[i])]

\* str.rfind("."): the last dot's position, 0 without one.
LastDot(name) ==
  IF \E i \in 1..Len(name) : name[i] = "."
    THEN CHOOSE i \in 1..Len(name) :
           name[i] = "." /\ \A j \in (i + 1)..Len(name) : name[j] # "."
  ELSE 0

\* pathlib's suffix and stem: cut at the last dot, unless it leads or ends
\* the name.
HasSuffix(name) == 1 < LastDot(name) /\ LastDot(name) < Len(name)
suffix(name) ==
  IF HasSuffix(name) THEN SubSeq(name, LastDot(name), Len(name)) ELSE <<>>
stem(name) ==
  IF HasSuffix(name) THEN SubSeq(name, 1, LastDot(name) - 1) ELSE name

\* str(chunk_index)
Digit(n) ==
  CASE n = 0 -> "0" [] n = 1 -> "1" [] n = 2 -> "2" [] n = 3 -> "3" [] n = 4 -> "4"
    [] n = 5 -> "5" [] n = 6 -> "6" [] n = 7 -> "7" [] n = 8 -> "8" [] n = 9 -> "9"
RECURSIVE Str(_)
Str(n) == IF n < 10 THEN <<Digit(n)>> ELSE Str(n \div 10) \o <<Digit(n % 10)>>

\* hashlib.sha256(key).hexdigest(), taken to be collision-free: the digest is
\* represented by the key it is the digest of.
sha256(key) == <<"sha256", key>>

\* _make_chunk_id(site, source_file, chunk_index)
make_chunk_id(site, source_file, chunk_index) ==
  sha256(site \o <<"|">> \o source_file \o <<"|">> \o Str(chunk_index))

\* The entries tried under data/clean: site directory and file name.
PathPool ==
  { <<<<"s">>, <<"a", ".", "t", "x", "t">>>>,
    <<<<"s">>, <<"a", ".", "T", "X", "T">>>>,
    <<<<"s">>, <<"a", "|", "b", ".", "t", "x", "t">>>>,
    <<<<"s", "|", "a">>, <<"b", ".", "t", "x", "t">>>>,
    <<<<"s">>, <<"a", ".", "m", "d">>>> }

\* A sentence of n one-letter words.
Words(n) == [i \in 1..(2 * n - 1) |-> IF i % 2 = 1 THEN "a" ELSE " "]

\* The document texts tried, as the sentences sent_tokenize finds in them: an
\* empty text, one short sentence, and two sentences that together exceed
\* one chunk.
LongSentence == Words((DefaultMaxWords \div 2) + 1)
TextPool == { <<>>, <<Words(1)>>, <<LongSentence, LongSentence>> }

\* The trees tried: up to MaxFiles entries, each with a text.
Trees ==
  { [exists |-> TRUE,
     files |-> {[site |-> p[1], name |-> p[2], text |-> t[p]] : p \in P}] :
      P \in {Q \in SUBSET PathPool : Cardinality(Q) <= MaxFiles},
      t \in [PathPool -> TextPool] }

\* sorted(..., key=name) over the site directories, then over each one's files.
Before(f, g) ==
  \/ LessStr(f.site, g.site)
  \/ f.site = g.site /\ LessStr(f.name, g.name)

RECURSIVE Sorted(_)
Sorted(S) ==
  IF S = {} THEN <<>>
  ELSE LET f == CHOOSE x \in S : \A y \in S \ {x} : Before(x, y)
       IN <<f>> \o Sorted(S \ {f})

\* The chunk file of a document: data/chunks/<site>/<stem>_chunks.json.
OutFile(f) == <<f.site, stem(f.name) \o <<"_chunks.json">>>>

\* Lines 93-94: main takes the files whose suffix is .txt in any case.
Accepted(f) == lower(suffix(f.name)) = <<".", "t", "x", "t">>

\* Lines 110-120: the records of a document's chunks.
ChunkRecords(f, out) ==
  [i \in 1..Len(out) |->
     [id |-> make_chunk_id(f.site, stem(f.name), i - 1), site |-> f.site,
      source_file |-> f.name, chunk_index |-> i - 1, text |-> out[i]]]

\* The loop of main from document i of the sorted list on. chunked holds
\* chunk_text's result for each document's text, and fault names what fails
\* for each document: its read, the unlink of its old chunk file, the open of
\* its new chunk file, or the write into it.
RECURSIVE MainLoop(_, _, _, _, _, _)
MainLoop(docs, i, acc, cf, chunked, fault) ==
  IF i > Len(docs) THEN [raised |-> FALSE, all |-> acc, cf |-> cf]
  ELSE LET f == docs[i]
           o == OutFile(f)
       IN IF ~Accepted(f) THEN MainLoop(docs, i + 1, acc, cf, chunked, fault)
          ELSE IF fault[f] = "read"
            THEN MainLoop(docs, i + 1, acc, cf, chunked, fault)
          ELSE IF cf[o].st # "absent" /\ fault[f] = "unlink"
            THEN [raised |-> TRUE, all |-> acc, cf |-> cf]
          ELSE LET recs == ChunkRecords(f, chunked[f])
                   written == IF fault[f] = "open" THEN Absent(<<>>)
                              ELSE IF fault[f] = "write" THEN Corrupt(<<>>)
                              ELSE Holding(recs)
               IN MainLoop(docs, i + 1, acc \o recs,
                           [cf EXCEPT ![o] = written], chunked, fault)

DocFaults == {"none", "read", "unlink", "open", "write"}

\* What main() does with its inputs fixed: nothing without data/clean;
\* otherwise every accepted document is chunked, its chunk file replaced, and
\* all chunks are written together. An exception in the loop ends main before
\* all_chunks.json is written.
MainEffect(chunked, docs, fault, allFault) ==
  /\ \A f \in cleanDir.files :
       (~Accepted(f) \/ (fault[f] = "unlink" /\ chunkFiles[OutFile(f)].st = "absent"))
         => fault[f] = "none"
  /\ \E r \in {MainLoop(docs, 1, <<>>, chunkFiles, chunked, fault)} :
       /\ (~cleanDir.exists \/ r.raised) => allFault = "none"
       /\ chunkFiles' = (IF cleanDir.exists THEN r.cf ELSE chunkFiles)
       /\ all_chunks' =
            (IF ~cleanDir.exists \/ r.raised \/ allFault = "open" THEN all_chunks
             ELSE IF allFault = "write" THEN Corrupt(<<>>)
             ELSE Holding(r.all))
       /\ mainRun' = [done |-> TRUE,
                      outcome |-> IF cleanDir.exists /\ r.raised THEN "raised"
                                  ELSE "ok"]

\* A call of main() as a script.
MainCall(chunked, docs, fault, allFault) ==
  /\ MainEffect(chunked, docs, fault, allFault)
  /\ UNCHANGED <<cleanDir, embedVars, chunkVars, pipeVars>>

AllFaults == {"none", "open", "write"}

Main ==
  \E chunked \in {[f \in cleanDir.files |-> chunk_text(f.text, DefaultMaxWords)]},
     docs \in {Sorted(cleanDir.files)} :
    \E fault \in [cleanDir.files -> DocFaults], allFault \in AllFaults :
      MainCall(chunked, docs, fault, allFault)

InitMain ==
  /\ InitEmbedIdle
  /\ InitChunkIdle
  /\ InitPipeIdle
  /\ cleanDir \in Trees \cup {[exists |-> FALSE, files |-> {}]}
  /\ all_chunks = Absent(<<>>)
  /\ chunkFiles = [o \in {OutFile(f) : f \in cleanDir.files} |-> Absent(<<>>)]
  /\ mainRun = [done |-> FALSE, outcome |-> "none"]

NextMain == Main

SpecMain == InitMain /\ [][NextMain]_vars

\* ------------------------------------------------------------------------
\* Claims about the chunker's run
\* ------------------------------------------------------------------------
\* C10: in the consolidated collection one run writes, two records at
\* different places never share an id, and never share site, source_file
\* and chunk_index.
C10_UniqueChunkIds ==
  (mainRun.done /\ all_chunks.st = "ok") =>
    \A i, j \in 1..Len(all_chunks.val) :
      i # j =>
        /\ all_chunks.val[i].id # all_chunks.val[j].id
        /\ <<all_chunks.val[i].site, all_chunks.val[i].source_file,
             all_chunks.val[i].chunk_index>>
           # <<all_chunks.val[j].site, all_chunks.val[j].source_file,
               all_chunks.val[j].chunk_index>>

\* The records of document f in a list of chunk records.
RecordsOf(f, recs) ==
  {i \in 1..Len(recs) : recs[i].site = f.site /\ recs[i].source_file = f.name}

\* C11: in a run of main over an existing data/clean in which the write of
\* all_chunks.json itself succeeds, the run does not abort and
\* all_chunks.json is written; a document whose read, or whose chunk file's
\* unlink, open or write failed has no record in it; every other accepted
\* document has its chunks in it and a readable chunk file.
C11_PerFileIsolation ==
  [][\A chunked \in {[f \in cleanDir.files |-> chunk_text(f.text, DefaultMaxWords)]},
        docs \in {Sorted(cleanDir.files)} :
       \A fault \in [cleanDir.files -> DocFaults] :
         (cleanDir.exists /\ MainCall(chunked, docs, fault, "none")) =>
           /\ mainRun'.outcome = "ok"
           /\ all_chunks'.st = "ok"
           /\ \A f \in cleanDir.files :
                /\ fault[f] # "none" => RecordsOf(f, all_chunks'.val) = {}
                /\ (Accepted(f) /\ fault[f] = "none") =>
                     /\ Cardinality(RecordsOf(f, all_chunks'.val)) = Len(chunked[f])
                     /\ chunkFiles'[OutFile(f)].st = "ok"]_vars

\* ------------------------------------------------------------------------
\* Claims about ids and positions
\* ------------------------------------------------------------------------
\* The ids of ix are 0..N-1 in insertion order, and the vector with id i was
\* computed from the text of the chunk whose record is at position i of md.
Aligned(ix, md) ==
  /\ \A p \in 1..Len(ix.ids) : ix.ids[p] = p - 1
  /\ Len(ix.ids) = Len(md)
  /\ \A p \in 1..Len(ix.ids) :
       ix.ids[p] < Len(md) => ix.vecs[p].text = Chunk(md[ix.ids[p] + 1].id).text

\* C12: after every call of embed_all_and_save, load_index or
\* add_embeddings_incremental that returned, the index the caller holds has
\* the ids 0..N-1, each once and in increasing order of insertion, and the
\* vector with id i belongs to the chunk at position i of the metadata list.
C12_IdPositionAlignment ==
  (last.op \in {"embed_all", "load", "add"} /\ last.outcome = "ok"
     /\ index.kind = "IDMap")
    => Aligned(index, metadata_list)

\* ------------------------------------------------------------------------
\* pipeline.py: run_pipeline and the stages it calls
\* ------------------------------------------------------------------------
\* The document URLs a crawl may find.
Urls == {1, 2}

RECURSIVE AscendingUrls(_)
AscendingUrls(S) ==
  IF S = {} THEN <<>>
  ELSE LET u == CHOOSE x \in S : \A y \in S : x <= y
       IN <<u>> \o AscendingUrls(S \ {u})

UrlLists == {AscendingUrls(S) : S \in SUBSET Urls}

\* A yaml file holding the empty mapping {}.
EmptyMapping(empty) == [st |-> "mapping", val |-> empty]

\* The entry downloader.main appends for a downloaded URL.
DownloadRecord(u) == [url |-> u, path |-> <<"data/raw", u>>]

\* The URLs recorded in already_downloaded.yaml; none when it is absent or
\* holds nothing.
UrlsIn(file) ==
  IF file.st = "ok" THEN {file.val[i].url : i \in 1..Len(file.val)} ELSE {}

\* pipeline.load_yaml: the file's content, {} when the file is absent or its
\* content is falsy. The result is given as the content save_yaml would write.
load_yaml(file, falsy, empty) ==
  IF file.st = "ok" /\ ~falsy THEN file ELSE EmptyMapping(empty)

\* crawler.main: the links found that already_downloaded.yaml does not
\* record, written to doc_links.yaml.
crawler_main(found, file) ==
  Holding(SelectSeq(found, LAMBDA u : u \notin UrlsIn(file)))

\* downloader.main: every link not yet recorded is fetched (okSet: the
\* fetches that succeed) and appended, and the list is saved (saveFail: the
\* save raises and the file stays).
downloader_main(links, file, okSet, saveFail) ==
  LET downloaded == IF file.st = "ok" THEN file.val ELSE <<>>
      todo == SelectSeq(IF links.st = "ok" THEN links.val ELSE <<>>,
                        LAMBDA u : u \notin UrlsIn(file) /\ u \in okSet)
  IN [raised |-> saveFail,
      fetched |-> {todo[i] : i \in 1..Len(todo)},
      file |-> IF saveFail THEN file
               ELSE Holding(downloaded \o [i \in 1..Len(todo) |-> DownloadRecord(todo[i])])]

\* The embed stage: the chunks of all_chunks.json that metadata.json does
\* not hold yet are embedded and persisted; without a usable index the whole
\* collection is embedded anew.
embed_main(chunksFile, files, enc, d, failAt) ==
  IF chunksFile.st # "ok"
    THEN Result("ReadError", NoneIndex, <<>>, FALSE, Untouched(files))
  ELSE LET loaded == load_index(files, "none")
           seen == {loaded.metadata_list[i].id : i \in 1..Len(loaded.metadata_list)}
           unseen == SelectSeq(chunksFile.val, LAMBDA c : c.id \notin seen)
       IN IF loaded.index.kind = "None"
            THEN embed_all_and_save(loaded.index, loaded.metadata_list,
                                    chunksFile.val, enc, d, failAt, FALSE, files)
          ELSE add_embeddings_incremental(loaded.index, loaded.metadata_list,
                                          unseen, enc, d, failAt, FALSE, files)

\* The trees preprocess.main may leave under data/clean.
CleanPool ==
  { [site |-> <<"s">>, name |-> <<"a", ".", "t", "x", "t">>, text |-> <<Words(1)>>] }

PipeRun(pc, outcome, fetched, dlSaved, saved) ==
  [pc |-> pc, outcome |-> outcome, fetched |-> fetched, dlSaved |-> dlSaved,
   saved |-> saved]

\* Lines 39-49: run_pipeline starts and runs the crawl; an exception of the
\* crawl is logged.
CrawlStage ==
  \E found \in UrlLists, how \in {"skip", "ok", "fail"} :
    /\ pipeRun.pc = "idle"
    /\ how = "skip" => found = <<>>
    /\ docLinks' = (IF how = "ok" THEN crawler_main(found, downloadedFile)
                    ELSE docLinks)
    /\ pipeRun' = PipeRun("download", "running", {}, FALSE, FALSE)
    /\ UNCHANGED <<downloadedFile, embedVars, chunkVars, mainVars>>

\* Lines 54-62: already_downloaded.yaml is read, the download stage runs, and
\* what was read is written back in the finally clause (finFail: that write
\* raises, which ends run_pipeline).
DownloadStage ==
  \E okSet \in SUBSET Urls, saveFail \in BOOLEAN, finFail \in BOOLEAN :
    /\ pipeRun.pc = "download"
    /\ okSet \subseteq (IF docLinks.st = "ok"
                          THEN {docLinks.val[i] : i \in 1..Len(docLinks.val)}
                        ELSE {})
    /\ \E held \in {load_yaml(downloadedFile, downloadedFile.val = <<>>, <<>>)},
          r \in {downloader_main(docLinks, downloadedFile, okSet, saveFail)} :
         /\ downloadedFile' = (IF finFail THEN r.file ELSE held)
         /\ pipeRun' = PipeRun(IF finFail THEN "idle" ELSE "clean",
                               IF finFail THEN "raised" ELSE "running",
                               r.fetched, ~r.raised, FALSE)
    /\ UNCHANGED <<docLinks, embedVars, chunkVars, mainVars>>

\* Lines 67-71: the preprocess stage leaves the clean texts of the documents
\* it could extract; it removes none.
CleanStage ==
  \E files \in SUBSET CleanPool :
    /\ pipeRun.pc = "clean"
    /\ cleanDir.files \subseteq files
    /\ cleanDir' = [exists |-> TRUE, files |-> files]
    /\ chunkFiles' = [o \in {OutFile(f) : f \in files} |->
                        IF o \in DOMAIN chunkFiles THEN chunkFiles[o]
                        ELSE Absent(<<>>)]
    /\ pipeRun' = [pipeRun EXCEPT !.pc = "chunk"]
    /\ UNCHANGED <<all_chunks, mainRun, docLinks, downloadedFile, embedVars,
                   chunkVars>>

\* Lines 76-80: the chunk stage; an exception of chunker.main is logged.
ChunkStage ==
  \E chunked \in {[f \in cleanDir.files |-> chunk_text(f.text, DefaultMaxWords)]},
     docs \in {Sorted(cleanDir.files)} :
    \E fault \in [cleanDir.files -> DocFaults], allFault \in AllFaults :
      /\ pipeRun.pc = "chunk"
      /\ MainEffect(chunked, docs, fault, allFault)
      /\ pipeRun' = [pipeRun EXCEPT !.pc = "embed"]
      /\ UNCHANGED <<cleanDir, docLinks, downloadedFile, embedVars, chunkVars>>

\* Lines 85-92: already_embedded.yaml is read (an unreadable file ends
\* run_pipeline), the embed stage runs, and what was read is written back in
\* the finally clause (finFail: that write raises).
EmbedStage ==
  \E enc \in BOOLEAN, failAt \in FailPoints, finFail \in BOOLEAN :
    /\ pipeRun.pc = "embed"
    /\ IF sidecar.st = "corrupt"
         THEN /\ enc /\ failAt = "none" /\ ~finFail
              /\ pipeRun' = [pipeRun EXCEPT !.pc = "idle", !.outcome = "raised"]
              /\ UNCHANGED <<idxFile, metaFile, sidecar, lastRun>>
       ELSE \E held \in {load_yaml(sidecar, FALSE, 0)},
               r \in {embed_main(all_chunks, Files, enc, modelDim, failAt)} :
              /\ ntotal(r.index) <= MaxIndex
              /\ idxFile' = r.idx
              /\ metaFile' = r.meta
              /\ sidecar' = (IF finFail THEN r.side ELSE held)
              /\ lastRun' = Absent(<<>>)
              /\ pipeRun' = [pipeRun EXCEPT
                               !.pc = "idle",
                               !.outcome = IF finFail THEN "raised" ELSE "returned",
                               !.saved = r.saved]
    /\ UNCHANGED <<index, metadata_list, modelDim, origin, last, faults,
                   chunkVars, mainVars, docLinks, downloadedFile>>

InitPipeline ==
  /\ InitEmbedIdle
  /\ InitChunkIdle
  /\ cleanDir = [exists |-> TRUE, files |-> {}]
  /\ all_chunks = Absent(<<>>)
  /\ chunkFiles = [o \in {} |-> Absent(<<>>)]
  /\ mainRun = [done |-> FALSE, outcome |-> "none"]
  /\ docLinks = Absent(<<>>)
  /\ downloadedFile = Absent(<<>>)
  /\ pipeRun = PipeRun("idle", "none", {}, FALSE, FALSE)

NextPipeline ==
  \/ CrawlStage
  \/ DownloadStage
  \/ CleanStage
  \/ ChunkStage
  \/ EmbedStage

SpecPipeline == InitPipeline /\ [][NextPipeline]_vars

\* ------------------------------------------------------------------------
\* Claims about run_pipeline
\* ------------------------------------------------------------------------
\* C13: when run_pipeline has returned, already_downloaded.yaml records
\* every URL the download stage fetched and saved in the run, and
\* already_embedded.yaml holds the count of the metadata the embed stage
\* persisted in the run.
C13_BookkeepingKept ==
  (pipeRun.pc = "idle" /\ pipeRun.outcome = "returned") =>
    /\ pipeRun.dlSaved => pipeRun.fetched \subseteq UrlsIn(downloadedFile)
    /\ pipeRun.saved => sidecar = Holding(Len(metaFile.val))

====
